---- MODULE Spec2Model ----
(***************************************************************************)
(* State-machine model of the AGN-DB client query builder (QuerySearch),   *)
(* its request layer (services/api) and the result view.                   *)
(*                                                                         *)
(* The repository holds two generations of the QuerySearch component that  *)
(* are modelled side by side over the same state:                          *)
(*   - the cancellable component (executeQueryWithCancellation, Cancel),   *)
(*     specification Spec;                                                 *)
(*   - the component with the "Existing Query Results" dialog (combine /   *)
(*     clear-and-execute / Clear Results), specification SpecModal.        *)
(* SpecColumns is the results view of the latter with its column selector. *)
(* SpecSecondPage is the cancellable component from the state in which the *)
(* second page of an answer is shown; SpecArrivals is the same component   *)
(* with every request eventually completing. SpecPages pages through the   *)
(* answers to one tree, and SpecCombine applies the combination of two     *)
(* trees to bounded inputs.                                                *)
(* The export dialog (ExportDialog) is modelled over QuerySearch after its  *)
(* first answered search: SpecExport follows its export requests,          *)
(* SpecSelection its field selection controls, SpecOpenExport the Export   *)
(* button of the results view from the first render. SpecOrder and         *)
(* SpecFilename apply getOrderedColumns and the filename choice of an      *)
(* export response to bounded inputs. SpecServer is the server's handling  *)
(* of one request as the design describes it (the server's code is not     *)
(* part of the repository's sources).                                      *)
(* A React event handler, the re-render it causes and the effects that     *)
(* re-render runs are one atomic step; a promise continuation is a step    *)
(* of its own and reads the state captured by its closure.                 *)
(***************************************************************************)
EXTENDS Integers, Sequences, FiniteSets, TLC

\* ------------------------------------------------------------ bounds
\* Requests issued in one behaviour.
MaxRequests == 4
\* Sources in the store the server answers from.
NumSources == 25
\* Columns (a prefix of columnOrder) the user toggles one by one.
MaxToggleCol == 2

\* Length of the arrays getOrderedColumns is called with.
MaxColumns == 3

\* Export requests issued in one behaviour.
MaxExports == 2
\* getAvailableFields requests in flight at once.
MaxFieldRequests == 1
\* Fields (a prefix of all_fields) whose checkbox the user clicks in the dialog.
MaxToggleField == 1
\* Pieces in a Content-Disposition header.
MaxHeaderLen == 3
\* Rows a request matches in the store.
MaxRows == 3
\* Rows one store call returns to the export pipeline.
StoreBatch == 2
\* Rules at the root of a tree that is combined.
MaxRules == 2

\* ------------------------------------------------------------ JS values
Null == "null"
Undefined == "undefined"

Min(a, b) == IF a < b THEN a ELSE b
Max(a, b) == IF a > b THEN a ELSE b
\* Math.ceil(a / b) for a >= 0, b > 0
CeilDiv(a, b) == (a + b - 1) \div b

\* ------------------------------------------------------------ field list
fields ==
  << [name |-> "agn_id", inputType |-> "number"],
     [name |-> "ra", inputType |-> "number"],
     [name |-> "declination", inputType |-> "number"],
     [name |-> "band_label", inputType |-> "text"],
     [name |-> "filter_name", inputType |-> "text"],
     [name |-> "mag_value", inputType |-> "number"],
     [name |-> "mag_error", inputType |-> "number"],
     [name |-> "extinction", inputType |-> "number"],
     [name |-> "redshift_type", inputType |-> "text"],
     [name |-> "z_value", inputType |-> "number"],
     [name |-> "z_error", inputType |-> "number"],
     [name |-> "spec_class", inputType |-> "text"],
     [name |-> "gen_class", inputType |-> "text"],
     [name |-> "xray_class", inputType |-> "text"],
     [name |-> "best_class", inputType |-> "text"],
     [name |-> "image_class", inputType |-> "text"],
     [name |-> "sed_class", inputType |-> "text"] >>

FieldNames == { fields[i].name : i \in DOMAIN fields }

FieldIsNumber(f) == \E i \in DOMAIN fields : fields[i].name = f /\ fields[i].inputType = "number"

preferredOrder ==
  << "agn_id", "ra", "declination",
     "redshift_type", "z_value", "z_error",
     "spec_class", "gen_class", "xray_class", "best_class", "image_class", "sed_class",
     "band_label", "filter_name", "mag_value", "mag_error", "extinction" >>

\* Names outside the preferred list, in alphabetical order (localeCompare).
AlphaOrder == << "created_at", "photometry_id", "updated_at" >>

\* Array.prototype.indexOf: the 0-based index of the first occurrence, or -1.
IndexOf(seq, x) ==
  IF \E i \in DOMAIN seq : seq[i] = x
  THEN (CHOOSE i \in DOMAIN seq : seq[i] = x /\ \A j \in 1..(i - 1) : seq[j] # x) - 1
  ELSE -1

localeCompare(a, b) == IndexOf(AlphaOrder, a) - IndexOf(AlphaOrder, b)

\* The comparator with the alphabetical tie-break reversed.
CompareColumnsReversedTies(a, b) ==
  LET indexA == IndexOf(preferredOrder, a)
      indexB == IndexOf(preferredOrder, b)
  IN IF indexA >= 0 /\ indexB >= 0 THEN indexA - indexB
     ELSE IF indexA >= 0 THEN -1
     ELSE IF indexB >= 0 THEN 1
     ELSE localeCompare(b, a)

\* The comparator of getOrderedColumns.
CompareColumns(a, b) ==
  LET indexA == IndexOf(preferredOrder, a)
      indexB == IndexOf(preferredOrder, b)
  IN IF indexA >= 0 /\ indexB >= 0 THEN indexA - indexB
     ELSE IF indexA >= 0 THEN -1
     ELSE IF indexB >= 0 THEN 1
     ELSE localeCompare(a, b)

\* Stable insertion of x into the sorted sequence s.
InsertColumn(s, x) ==
  LET after == { i \in DOMAIN s : CompareColumns(s[i], x) > 0 }
      pos == IF after = {} THEN Len(s) + 1
             ELSE CHOOSE i \in after : \A j \in after : i <= j
  IN SubSeq(s, 1, pos - 1) \o << x >> \o SubSeq(s, pos, Len(s))

RECURSIVE SortColumns(_, _)
SortColumns(columns, n) ==
  IF n = 0 THEN << >> ELSE InsertColumn(SortColumns(columns, n - 1), columns[n])

\* [...columns].sort(comparator)
getOrderedColumns(columns) == SortColumns(columns, Len(columns))

\* ExportDialog.jsx keeps its own copy of the function.
preferredOrderExport ==
  << "agn_id", "ra", "declination",
     "redshift_type", "z_value", "z_error",
     "spec_class", "gen_class", "xray_class", "best_class", "image_class", "sed_class",
     "band_label", "filter_name", "mag_value", "mag_error", "extinction" >>

CompareColumnsExport(a, b) ==
  LET indexA == IndexOf(preferredOrderExport, a)
      indexB == IndexOf(preferredOrderExport, b)
  IN IF indexA >= 0 /\ indexB >= 0 THEN indexA - indexB
     ELSE IF indexA >= 0 THEN -1
     ELSE IF indexB >= 0 THEN 1
     ELSE localeCompare(a, b)

InsertColumnExport(s, x) ==
  LET after == { i \in DOMAIN s : CompareColumnsExport(s[i], x) > 0 }
      pos == IF after = {} THEN Len(s) + 1
             ELSE CHOOSE i \in after : \A j \in after : i <= j
  IN SubSeq(s, 1, pos - 1) \o << x >> \o SubSeq(s, pos, Len(s))

RECURSIVE SortColumnsExport(_, _)
SortColumnsExport(columns, n) ==
  IF n = 0 THEN << >>
  ELSE InsertColumnExport(SortColumnsExport(columns, n - 1), columns[n])

getOrderedColumnsExport(columns) == SortColumnsExport(columns, Len(columns))

\* The column order the mount effect stores.
columnOrder == getOrderedColumns([i \in DOMAIN fields |-> fields[i].name])

\* ------------------------------------------------------------ query trees
RuleDec   == [field |-> "declination", operator |-> "greaterThan", value |-> "0"]
RuleClass == [field |-> "best_class", operator |-> "equals", value |-> "Quasar"]
\* What the builder offers without a validator: any operator on any field,
\* and the empty string as the value of a fresh rule.
RuleBad   == [field |-> "ra", operator |-> "contains", value |-> ""]

InitialQuery == [combinator |-> "and", rules |-> << >>]

\* Trees the user composes in the builder (onQueryChange); the builder starts
\* from InitialQuery.
NestedGroup == [combinator |-> "and", rules |-> << RuleDec >>]

BuilderTrees ==
  { [combinator |-> "and", rules |-> << RuleClass, NestedGroup >>],
    [combinator |-> "or", rules |-> << RuleBad >>] }

\* lastExecutedQuery / pendingQuery holding null.
NullQuery == [combinator |-> Null, rules |-> << >>]

IsGroup(n) == "rules" \in DOMAIN n

\* ------------------------------------------------------------ server
\* POST /search as the interface description gives it: validation of the
\* tree, the matching sources, the total and one page of rows.
StringOperators == { "contains", "beginsWith", "endsWith" }
NumberOperators == { "greaterThan", "lessThan", "greaterThanOrEqual", "lessThanOrEqual" }
AnyOperators    == { "equals", "notEquals" }
NoValueOperators == { "null", "notNull" }

RECURSIVE ValidNode(_)
ValidNode(n) ==
  IF IsGroup(n)
  THEN /\ n.combinator \in { "and", "or" }
       /\ \A i \in DOMAIN n.rules : ValidNode(n.rules[i])
  ELSE /\ n.field \in FieldNames
       /\ n.operator \in StringOperators \cup NumberOperators \cup AnyOperators \cup NoValueOperators
       /\ n.operator \in StringOperators => ~FieldIsNumber(n.field)
       /\ n.operator \in NumberOperators => FieldIsNumber(n.field)
       /\ n.operator \notin NoValueOperators => n.value # ""

Sources == 1..NumSources
Declination(i) == i - 20
BestClass(i) == IF i % 3 = 0 THEN "Quasar" ELSE "Seyfert"

ParseNumber(v) == CASE v = "0" -> 0 [] v = "10" -> 10 [] OTHER -> 0

RuleMatches(r, i) ==
  CASE r.field = "declination" /\ r.operator = "greaterThan" -> Declination(i) > ParseNumber(r.value)
    [] r.field = "declination" /\ r.operator = "lessThan" -> Declination(i) < ParseNumber(r.value)
    [] r.field = "best_class" /\ r.operator = "equals" -> BestClass(i) = r.value
    [] r.field = "best_class" /\ r.operator = "notEquals" -> BestClass(i) # r.value
    [] OTHER -> FALSE

RECURSIVE NodeMatches(_, _)
NodeMatches(n, i) ==
  IF IsGroup(n)
  THEN IF n.rules = << >> THEN TRUE
       ELSE IF n.combinator = "and"
            THEN \A k \in DOMAIN n.rules : NodeMatches(n.rules[k], i)
            ELSE \E k \in DOMAIN n.rules : NodeMatches(n.rules[k], i)
  ELSE RuleMatches(n, i)

Matches(tree) == { i \in Sources : NodeMatches(tree, i) }

\* The matching sources by ascending id, ids from..NumSources.
RECURSIVE Ascending(_, _)
Ascending(S, from) ==
  IF from > NumSources THEN << >>
  ELSE (IF from \in S THEN << from >> ELSE << >>) \o Ascending(S, from + 1)

Reverse(s) == [i \in DOMAIN s |-> s[Len(s) + 1 - i]]

\* ra falls as the id grows, agn_id and declination grow with it; no sort
\* field means the order of the ids.
SortedRows(S, sort_field, sort_direction) ==
  LET byId == Ascending(S, 1)
      descending == sort_direction = "desc"
  IN IF sort_field \in { "agn_id", "declination" } THEN (IF descending THEN Reverse(byId) ELSE byId)
     ELSE IF sort_field = "ra" THEN (IF descending THEN byId ELSE Reverse(byId))
     ELSE byId

SearchTotal(tree) == Cardinality(Matches(tree))

\* SearchItems whose page runs one row too far.
SearchItemsOneMore(tree, skip, limit, sort_field, sort_direction) ==
  LET rows == SortedRows(Matches(tree), sort_field, sort_direction)
  IN SubSeq(rows, skip + 1, Min(skip + limit + 1, Len(rows)))

SearchItems(tree, skip, limit, sort_field, sort_direction) ==
  LET rows == SortedRows(Matches(tree), sort_field, sort_direction)
  IN SubSeq(rows, skip + 1, Min(skip + limit, Len(rows)))

\* ------------------------------------------------------------ state
VARIABLES
  query,              \* the builder's Query Tree
  sameRef,            \* query is the very object held in lastExecutedQuery
  loading,
  results,            \* the rows on display (source ids)
  error,
  pagination,
  lastExecutedQuery,
  visibleColumns,
  showColumnSelector,
  inflight,           \* the requests whose promise has not settled, oldest first
  nextId,             \* the id of the next request
  searchRequestRef,   \* the id of the request searchRequestRef.current cancels, or 0
  runtimeInterval,    \* runtimeInterval.current: the id of the interval last created, or 0
  intervals,          \* the interval timers that are running
  showQueryModal,
  pendingQuery,
  hasExecutedQuery,
  newQueryTimer,      \* the closure of handleNewQuery's setTimeout while it is pending
  showExportDialog,   \* isOpen of ExportDialog
  format,
  exportLoading,      \* loading of ExportDialog
  exportError,        \* error of ExportDialog
  availableFields,
  fieldsFetched,
  selectedFields,
  fieldsInflight,     \* getAvailableFields requests whose promise has not settled
  exports,            \* the export requests whose promise has not settled
  nextExportId,
  exportRequestRef,   \* the id of the export exportRequestRef.current cancels, or 0
  downloads,          \* the filenames downloadBlob was called with
  server,             \* the request the server is handling
  ordering,           \* a call of getOrderedColumns: its argument and what it returned
  naming,             \* a response to an export request and the filename chosen for it
  paging,             \* a walk through the pages of one search
  combining           \* a call of the tree combination: its arguments and what it built

queryVars == << query, sameRef, loading, results, error, pagination, lastExecutedQuery,
                visibleColumns, showColumnSelector, inflight, nextId, searchRequestRef,
                runtimeInterval, intervals, showQueryModal, pendingQuery,
                hasExecutedQuery, newQueryTimer >>

dialogVars == << showExportDialog, format, exportLoading, exportError, availableFields,
                 fieldsFetched, selectedFields, fieldsInflight, exports, nextExportId,
                 exportRequestRef, downloads >>

serverVars == << server >>

\* The calls of the pure functions.
pureVars == << ordering, naming, paging, combining >>

\* What no handler of QuerySearch touches.
exportVars == << dialogVars, serverVars, pureVars >>

vars == << queryVars, dialogVars, serverVars, pureVars >>

columnVars == << visibleColumns, showColumnSelector >>
modalVars  == << showQueryModal, pendingQuery, hasExecutedQuery, newQueryTimer >>
timerVars  == << searchRequestRef, runtimeInterval, intervals >>

\* error === null
NoError == [message |-> Null, status |-> 0]
TimeoutError ==
  [message |-> "Query timed out. Please refine your search criteria to make the query less complex.",
   status |-> 408]
\* A failure the server or the network reports.
ServerError == [message |-> "An error occurred", status |-> 500]
CancelledError == [message |-> "Search cancelled by user", status |-> 0]

NoTimer == [query |-> NullQuery, pendingQuery |-> NullQuery, skip |-> 0, limit |-> 0]

Limit == 20

InitialPagination ==
  [skip |-> 0, limit |-> Limit, total |-> 0, sort_field |-> Null, sort_direction |-> "asc"]

\* availableFields before the catalog has been fetched.
NoFields == [categories |-> {}, all_fields |-> << >>]

\* The server while it handles no request.
NoRequest ==
  [kind |-> "none", query |-> [combinator |-> Null, rules |-> << >>], limit |-> 0,
   selected_fields |-> << >>, total |-> 0]
ServerIdle ==
  [phase |-> "idle", request |-> NoRequest, error |-> "none",
   storeCalls |-> 0, storeInFlight |-> FALSE, fetched |-> 0, serialized |-> 0,
   bytes |-> 0, cancelSignal |-> FALSE, cancelled |-> FALSE]

\* ExportDialog as QuerySearch mounts it: closed, nothing fetched.
InitDialog ==
  /\ showExportDialog = FALSE
  /\ format = "csv"
  /\ exportLoading = FALSE
  /\ exportError = NoError
  /\ availableFields = NoFields
  /\ fieldsFetched = FALSE
  /\ selectedFields = << >>
  /\ fieldsInflight = 0
  /\ exports = << >>
  /\ nextExportId = 1
  /\ exportRequestRef = 0
  /\ downloads = << >>

\* No page fetched, no trees combined, no filename chosen, no call of
\* getOrderedColumns under observation.
NoPaging ==
  [query |-> [combinator |-> Null, rules |-> << >>], sort_field |-> Null,
   sort_direction |-> "asc", limit |-> 1, skip |-> 0, rows |-> << >>, totals |-> {},
   done |-> FALSE]
NoCombining ==
  [last |-> [combinator |-> Null, rules |-> << >>],
   pending |-> [combinator |-> Null, rules |-> << >>], called |-> FALSE,
   combined |-> [combinator |-> Null, rules |-> << >>]]
NoNaming == [contentDisposition |-> << >>, format |-> "csv", called |-> FALSE, filename |-> << >>]
NoOrdering == [columns |-> << >>, called |-> FALSE, querySearch |-> << >>, exportDialog |-> << >>]

InitQuery ==
  /\ query = InitialQuery
  /\ sameRef = FALSE
  /\ loading = FALSE
  /\ results = << >>
  /\ error = NoError
  /\ pagination = InitialPagination
  /\ lastExecutedQuery = NullQuery
  /\ visibleColumns = [c \in { columnOrder[i] : i \in DOMAIN columnOrder } |-> TRUE]
  /\ showColumnSelector = FALSE
  /\ inflight = << >>
  /\ nextId = 1
  /\ searchRequestRef = 0
  /\ runtimeInterval = 0
  /\ intervals = {}
  /\ showQueryModal = FALSE
  /\ pendingQuery = NullQuery
  /\ hasExecutedQuery = FALSE
  /\ newQueryTimer = NoTimer

Init ==
  /\ InitDialog
  /\ server = ServerIdle
  /\ ordering = NoOrdering
  /\ naming = NoNaming
  /\ paging = NoPaging
  /\ combining = NoCombining
  /\ InitQuery

\* ------------------------------------------------------------ request layer
\* apiRequest: the request as it is in flight. The timeout timer is armed only
\* when the caller passed no signal. abort is "cancel" once the cancel function
\* handed to the caller has aborted the controller; atCancel records that the
\* user pressed Cancel while the request was in flight.
apiRequest(id, kind, tree, pag, hasSignal) ==
  [id |-> id, kind |-> kind, query |-> tree, pag |-> pag,
   timer |-> ~hasSignal, abort |-> "none", atCancel |-> FALSE]

\* searchApi.executeQuery
executeQuery(id, kind, tree, pag) == apiRequest(id, kind, tree, pag, FALSE)

\* searchApi.executeQueryWithCancellation: its own controller goes in as signal.
executeQueryWithCancellation(id, kind, tree, pag) == apiRequest(id, kind, tree, pag, TRUE)

\* The error apiRequest throws for a request whose fetch ended with an AbortError.
AbortRejection(r) == TimeoutError

\* cancel(): controller.abort() on the request with this id.
CancelRequest(reqs, id) ==
  [i \in DOMAIN reqs |->
     IF reqs[i].id = id /\ reqs[i].abort = "none"
     THEN [reqs[i] EXCEPT !.abort = "cancel"] ELSE reqs[i]]

\* History: the requests in flight when the user presses Cancel.
PressedCancel(reqs) == [i \in DOMAIN reqs |-> [reqs[i] EXCEPT !.atCancel = TRUE]]

RemoveAt(s, i) == SubSeq(s, 1, i - 1) \o SubSeq(s, i + 1, Len(s))

\* An aborted fetch rejects at once: its continuation runs before any other
\* event is handled.
MicrotaskPending ==
  \/ \E i \in DOMAIN inflight : inflight[i].abort # "none"
  \/ \E i \in DOMAIN exports : exports[i].abort

\* The user can act on the page: nothing is queued ahead of the click.
UserCanAct == ~MicrotaskPending /\ newQueryTimer = NoTimer
\* ... and no dialog's overlay covers the page.
PageFree == UserCanAct /\ ~showQueryModal /\ ~showExportDialog

\* ------------------------------------------------------------ pagination effect
\* The effect on [skip, limit, sort_field, sort_direction, lastExecutedQuery],
\* run after the render that follows a handler or continuation which left
\* loading1, error1, pag1, leq1 and the requests inflight1.
paginationSearchEffect(loading1, error1, pag1, leq1, leqChanged, inflight1, nid1) ==
  LET depsChanged == \/ leqChanged
                     \/ pag1.skip # pagination.skip
                     \/ pag1.limit # pagination.limit
                     \/ pag1.sort_field # pagination.sort_field
                     \/ pag1.sort_direction # pagination.sort_direction
      run == depsChanged /\ leq1 # NullQuery
      req == executeQuery(nid1, "paginationSearch", leq1, pag1)
  IN /\ run => nid1 <= MaxRequests
     /\ pagination' = pag1
     /\ lastExecutedQuery' = leq1
     /\ loading' = IF run THEN TRUE ELSE loading1
     /\ error' = IF run THEN NoError ELSE error1
     /\ inflight' = IF run THEN Append(inflight1, req) ELSE inflight1
     /\ nextId' = IF run THEN nid1 + 1 ELSE nid1

\* ------------------------------------------------------------ builder
\* onQueryChange={setQuery}: every edit stores a new tree object.
onQueryChange(t) ==
  /\ PageFree
  /\ t # query
  /\ query' = t
  /\ sameRef' = FALSE
  /\ UNCHANGED << loading, results, error, pagination, lastExecutedQuery, inflight, nextId,
                  columnVars, exportVars, modalVars, timerVars >>

\* ------------------------------------------------------------ cancellable component
executeSearch ==
  LET id == nextId
      req == executeQueryWithCancellation(id, "executeSearch", query, pagination)
      cancelled == IF searchRequestRef # 0 THEN CancelRequest(inflight, searchRequestRef)
                   ELSE inflight
  IN /\ id <= MaxRequests
     /\ runtimeInterval' = id
     /\ intervals' = intervals \cup { id }
     /\ searchRequestRef' = id
     /\ sameRef' = TRUE
     /\ paginationSearchEffect(TRUE, NoError, pagination, query, ~sameRef,
                               Append(cancelled, req), id + 1)
     /\ UNCHANGED << query, results, columnVars, exportVars, modalVars >>

\* The submit button is rendered only while loading is false.
handleSubmit ==
  /\ PageFree
  /\ ~loading
  /\ executeSearch

handleCancelSearch ==
  /\ PageFree
  /\ loading
  /\ inflight' = PressedCancel(IF searchRequestRef # 0
                               THEN CancelRequest(inflight, searchRequestRef)
                               ELSE inflight)
  /\ searchRequestRef' = 0
  /\ intervals' = intervals \ { runtimeInterval }
  /\ loading' = FALSE
  /\ error' = CancelledError
  /\ UNCHANGED << query, sameRef, results, pagination, lastExecutedQuery, nextId,
                  runtimeInterval, columnVars, exportVars, modalVars >>

\* ------------------------------------------------------------ pagination and sort
getCurrentPage == (pagination.skip \div pagination.limit) + 1
getTotalPages == Max(1, CeilDiv(pagination.total, pagination.limit))

\* The argument each enabled pagination button passes to handlePageChange.
PageButtons ==
  (IF getCurrentPage = 1 THEN {} ELSE { 0, getCurrentPage - 2 })
    \cup (IF getCurrentPage >= getTotalPages THEN {} ELSE { getCurrentPage, getTotalPages - 1 })

handlePageChange(newPage) ==
  LET page0 == IF newPage < 0 THEN 0 ELSE newPage
      totalPages == getTotalPages
      page1 == IF page0 >= totalPages THEN totalPages - 1 ELSE page0
      newSkip == page1 * pagination.limit
      pag1 == IF newSkip # pagination.skip THEN [pagination EXCEPT !.skip = newSkip]
              ELSE pagination
  IN /\ PageFree
     /\ Len(results) > 0
     /\ paginationSearchEffect(loading, error, pag1, lastExecutedQuery, FALSE, inflight, nextId)
     /\ UNCHANGED << query, sameRef, results, columnVars, exportVars, modalVars, timerVars >>

\* ------------------------------------------------------------ columns
\* columnOrder.filter(visible), or the first three columns when none is.
getVisibleColumns ==
  LET visible == SelectSeq(columnOrder, LAMBDA c : visibleColumns[c] = TRUE)
  IN IF Len(visible) = 0 /\ Len(columnOrder) > 0 THEN SubSeq(columnOrder, 1, 3) ELSE visible

RenderedColumns == { getVisibleColumns[i] : i \in DOMAIN getVisibleColumns }

\* The header cells the user sorts by.
SortFields == { "ra" }

handleSort(field) ==
  LET pag1 == IF pagination.sort_field = field
              THEN [pagination EXCEPT !.sort_direction =
                      IF pagination.sort_direction = "asc" THEN "desc" ELSE "asc"]
              ELSE [pagination EXCEPT !.sort_field = field, !.sort_direction = "asc"]
  IN /\ PageFree
     /\ Len(results) > 0
     /\ field \in RenderedColumns
     /\ paginationSearchEffect(loading, error, pag1, lastExecutedQuery, FALSE, inflight, nextId)
     /\ UNCHANGED << query, sameRef, results, columnVars, exportVars, modalVars, timerVars >>

searchVars == << query, sameRef, loading, results, error, pagination, lastExecutedQuery,
                 inflight, nextId >>

toggleColumnSelector ==
  /\ PageFree
  /\ Len(results) > 0
  /\ showColumnSelector' = ~showColumnSelector
  /\ UNCHANGED << searchVars, visibleColumns, modalVars, timerVars, exportVars >>

toggleColumnVisibility(column) ==
  /\ PageFree
  /\ Len(results) > 0
  /\ showColumnSelector
  /\ visibleColumns' = [visibleColumns EXCEPT ![column] = ~visibleColumns[column]]
  /\ UNCHANGED << searchVars, showColumnSelector, modalVars, timerVars, exportVars >>

\* toggleAllColumns that also resets the builder to the empty tree.
toggleAllColumnsResetsQuery(visible) ==
  /\ PageFree
  /\ Len(results) > 0
  /\ showColumnSelector
  /\ visibleColumns' = [c \in { columnOrder[i] : i \in DOMAIN columnOrder } |-> visible]
  /\ query' = InitialQuery
  /\ sameRef' = FALSE
  /\ UNCHANGED << loading, results, error, pagination, lastExecutedQuery, inflight, nextId,
                  showColumnSelector, modalVars, timerVars, exportVars >>

toggleAllColumns(visible) ==
  /\ PageFree
  /\ Len(results) > 0
  /\ showColumnSelector
  /\ visibleColumns' = [c \in { columnOrder[i] : i \in DOMAIN columnOrder } |-> visible]
  /\ UNCHANGED << searchVars, showColumnSelector, modalVars, timerVars, exportVars >>

\* ------------------------------------------------------------ settling
\* How the promise of request r can settle now: an aborted fetch rejects, a
\* fetch in flight is answered, fails, or is aborted by the timeout callback
\* ("timeoutError") when apiRequest armed one.
Outcomes(r) ==
  IF r.abort # "none" THEN { "timeoutError" }
  ELSE IF MicrotaskPending THEN {}
  ELSE (IF ValidNode(r.query) THEN { "ok" } ELSE {})
         \cup { "error" }
         \cup (IF r.timer THEN { "timeoutError" } ELSE {})

Rejection(r, outcome) == IF outcome = "timeoutError" THEN AbortRejection(r) ELSE ServerError

ResponseItems(r) ==
  SearchItems(r.query, r.pag.skip, r.pag.limit, r.pag.sort_field, r.pag.sort_direction)

\* The continuation of executeSearch after `await promise`.
executeSearchSettled(i, outcome) ==
  LET r == inflight[i]
      ok == outcome = "ok"
      pag1 == IF ok THEN [r.pag EXCEPT !.total = SearchTotal(r.query)] ELSE pagination
      error1 == IF ok THEN error ELSE Rejection(r, outcome)
  IN /\ r.kind = "executeSearch"
     /\ outcome \in Outcomes(r)
     /\ results' = IF ok THEN ResponseItems(r) ELSE << >>
     /\ intervals' = intervals \ { runtimeInterval }
     /\ searchRequestRef' = 0
     /\ paginationSearchEffect(FALSE, error1, pag1, lastExecutedQuery, FALSE,
                               RemoveAt(inflight, i), nextId)
     /\ UNCHANGED << query, sameRef, runtimeInterval, columnVars, exportVars, modalVars >>

\* The continuation of paginationSearch after `await searchApi.executeQuery`.
paginationSearchSettled(i, outcome) ==
  LET r == inflight[i]
      ok == outcome = "ok"
      pag1 == IF ok THEN [r.pag EXCEPT !.total = SearchTotal(r.query)] ELSE pagination
      error1 == IF ok THEN error
                ELSE [message |-> Rejection(r, outcome).message, status |-> 0]
  IN /\ r.kind = "paginationSearch"
     /\ outcome \in Outcomes(r)
     /\ results' = IF ok THEN ResponseItems(r) ELSE results
     /\ paginationSearchEffect(FALSE, error1, pag1, lastExecutedQuery, FALSE,
                               RemoveAt(inflight, i), nextId)
     /\ UNCHANGED << query, sameRef, columnVars, exportVars, modalVars, timerVars >>

\* ------------------------------------------------------------ component with the dialog
\* executeSearch of this component, called from a closure that holds the tree q
\* and pagination.skip / pagination.limit: no sort parameters, no cancel handle.
executeSearchModalRequest(id, q, skip, limit) ==
  executeQuery(id, "executeSearchModal", q,
               [skip |-> skip, limit |-> limit, total |-> 0,
                sort_field |-> Undefined, sort_direction |-> Undefined])

\* { ...rule, valueSource: 'value' }
CombineRule(rule) ==
  [k \in DOMAIN rule \cup { "valueSource" } |->
     IF k = "valueSource" THEN "value" ELSE rule[k]]

\* CombineQueries that keeps the combinator of the last executed tree.
CombineQueriesKeepCombinator(last, pending) ==
  [combinator |-> last.combinator,
   rules |-> [i \in DOMAIN last.rules |-> CombineRule(last.rules[i])]
             \o [i \in DOMAIN pending.rules |-> CombineRule(pending.rules[i])]]

\* combinedQuery of handleCombineQueries
CombineQueries(last, pending) ==
  [combinator |-> "or",
   rules |-> [i \in DOMAIN last.rules |-> CombineRule(last.rules[i])]
             \o [i \in DOMAIN pending.rules |-> CombineRule(pending.rules[i])]]

\* handleSubmitModal that asks whenever a query has been executed, whether or
\* not results are on screen.
handleSubmitModalAsksWithoutResults ==
  /\ PageFree
  /\ ~loading
  /\ IF hasExecutedQuery
     THEN /\ pendingQuery' = query
          /\ showQueryModal' = TRUE
          /\ UNCHANGED << searchVars, hasExecutedQuery, newQueryTimer, columnVars, exportVars, timerVars >>
     ELSE /\ nextId <= MaxRequests
          /\ hasExecutedQuery' = TRUE
          /\ sameRef' = TRUE
          /\ paginationSearchEffect(TRUE, NoError, pagination, query, ~sameRef,
                 Append(inflight, executeSearchModalRequest(nextId, query, pagination.skip,
                                                            pagination.limit)),
                 nextId + 1)
          /\ UNCHANGED << query, results, showQueryModal, pendingQuery, newQueryTimer,
                          columnVars, exportVars, timerVars >>

handleSubmitModal ==
  /\ PageFree
  /\ ~loading
  /\ IF hasExecutedQuery /\ Len(results) > 0
     THEN /\ pendingQuery' = query
          /\ showQueryModal' = TRUE
          /\ UNCHANGED << searchVars, hasExecutedQuery, newQueryTimer, columnVars, exportVars, timerVars >>
     ELSE /\ nextId <= MaxRequests
          /\ hasExecutedQuery' = TRUE
          /\ sameRef' = TRUE
          /\ paginationSearchEffect(TRUE, NoError, pagination, query, ~sameRef,
                 Append(inflight, executeSearchModalRequest(nextId, query, pagination.skip,
                                                            pagination.limit)),
                 nextId + 1)
          /\ UNCHANGED << query, results, showQueryModal, pendingQuery, newQueryTimer,
                          columnVars, exportVars, timerVars >>

handleCombineQueries ==
  LET combinedQuery == CombineQueries(lastExecutedQuery, pendingQuery)
  IN /\ UserCanAct
     /\ showQueryModal
     /\ lastExecutedQuery # NullQuery
     /\ nextId <= MaxRequests
     /\ results' = << >>
     /\ query' = combinedQuery
     /\ sameRef' = TRUE
     /\ pendingQuery' = NullQuery
     /\ showQueryModal' = FALSE
     /\ hasExecutedQuery' = TRUE
     /\ paginationSearchEffect(TRUE, NoError, pagination, combinedQuery, TRUE,
            Append(inflight, executeSearchModalRequest(nextId, query, pagination.skip,
                                                       pagination.limit)),
            nextId + 1)
     /\ UNCHANGED << newQueryTimer, columnVars, exportVars, timerVars >>

\* setPagination({ skip: 0, limit: 20, total: 0 })
ClearedPagination ==
  [skip |-> 0, limit |-> Limit, total |-> 0, sort_field |-> Undefined,
   sort_direction |-> Undefined]

\* The state handleClear leaves.
handleClearUpdates ==
  /\ results' = << >>
  /\ query' = InitialQuery
  /\ sameRef' = FALSE
  /\ hasExecutedQuery' = FALSE
  /\ paginationSearchEffect(loading, NoError, ClearedPagination, NullQuery,
                            lastExecutedQuery # NullQuery, inflight, nextId)

\* The "Clear Results" button.
handleClear ==
  /\ PageFree
  /\ ~loading
  /\ Len(results) > 0
  /\ handleClearUpdates
  /\ UNCHANGED << showQueryModal, pendingQuery, newQueryTimer, columnVars, exportVars, timerVars >>

\* "Clear and Execute New Query": handleClear now, the rest in setTimeout(0)
\* with the values this render's closure holds.
handleNewQuery ==
  /\ UserCanAct
  /\ showQueryModal
  /\ handleClearUpdates
  /\ newQueryTimer' = [query |-> query, pendingQuery |-> pendingQuery,
                       skip |-> pagination.skip, limit |-> pagination.limit]
  /\ UNCHANGED << showQueryModal, pendingQuery, columnVars, exportVars, timerVars >>

\* The callback of that setTimeout.
handleNewQueryTimeout ==
  /\ newQueryTimer # NoTimer
  /\ ~MicrotaskPending
  /\ nextId <= MaxRequests
  /\ query' = newQueryTimer.pendingQuery
  /\ sameRef' = TRUE
  /\ pendingQuery' = NullQuery
  /\ showQueryModal' = FALSE
  /\ hasExecutedQuery' = TRUE
  /\ newQueryTimer' = NoTimer
  /\ paginationSearchEffect(TRUE, NoError, pagination, newQueryTimer.pendingQuery, TRUE,
         Append(inflight, executeSearchModalRequest(nextId, newQueryTimer.query,
                                                    newQueryTimer.skip, newQueryTimer.limit)),
         nextId + 1)
  /\ UNCHANGED << results, columnVars, exportVars, timerVars >>

\* handleCancelModal that closes the dialog and keeps the pending tree.
handleCancelModalKeepsPending ==
  /\ UserCanAct
  /\ showQueryModal
  /\ showQueryModal' = FALSE
  /\ UNCHANGED << searchVars, pendingQuery, hasExecutedQuery, newQueryTimer, columnVars,
                  exportVars, timerVars >>

handleCancelModal ==
  /\ UserCanAct
  /\ showQueryModal
  /\ pendingQuery' = NullQuery
  /\ showQueryModal' = FALSE
  /\ UNCHANGED << searchVars, hasExecutedQuery, newQueryTimer, columnVars, exportVars, timerVars >>

\* The continuation of this component's executeSearch.
executeSearchModalSettled(i, outcome) ==
  LET r == inflight[i]
      ok == outcome = "ok"
      pag1 == IF ok THEN [pagination EXCEPT !.total = SearchTotal(r.query)] ELSE pagination
      error1 == IF ok THEN error
                ELSE [message |-> Rejection(r, outcome).message, status |-> 0]
  IN /\ r.kind = "executeSearchModal"
     /\ outcome \in Outcomes(r)
     /\ results' = IF ok THEN ResponseItems(r) ELSE results
     /\ paginationSearchEffect(FALSE, error1, pag1, lastExecutedQuery, FALSE,
                               RemoveAt(inflight, i), nextId)
     /\ UNCHANGED << query, sameRef, columnVars, exportVars, modalVars, timerVars >>

SettleModal ==
  \E i \in DOMAIN inflight : \E outcome \in { "ok", "error", "timeoutError" } :
    \/ executeSearchModalSettled(i, outcome)
    \/ paginationSearchSettled(i, outcome)

Settle ==
  \E i \in DOMAIN inflight : \E outcome \in { "ok", "error", "timeoutError" } :
    \/ executeSearchSettled(i, outcome)
    \/ paginationSearchSettled(i, outcome)

ColumnActions ==
  \/ toggleColumnSelector
  \/ \E k \in 1..MaxToggleCol : toggleColumnVisibility(columnOrder[k])
  \/ \E visible \in BOOLEAN : toggleAllColumns(visible)

Next ==
  \/ \E t \in BuilderTrees : onQueryChange(t)
  \/ handleSubmit
  \/ handleCancelSearch
  \/ \E newPage \in PageButtons : handlePageChange(newPage)
  \/ \E field \in SortFields : handleSort(field)
  \/ Settle

Spec == Init /\ [][Next]_vars

NextModal ==
  \/ \E t \in BuilderTrees : onQueryChange(t)
  \/ handleSubmitModal
  \/ handleCombineQueries
  \/ handleNewQuery
  \/ handleNewQueryTimeout
  \/ handleCancelModal
  \/ handleClear
  \/ handleCancelSearch
  \/ \E newPage \in PageButtons : handlePageChange(newPage)
  \/ \E field \in SortFields : handleSort(field)
  \/ SettleModal

SpecModal == Init /\ [][NextModal]_vars

\* ------------------------------------------------------------ from the second page
\* The search component showing the second page of the answer to the initial
\* tree, every request answered: the state after submit and "next page".
\* Requests are numbered from here.
SecondPage ==
  /\ query = InitialQuery
  /\ sameRef = TRUE
  /\ loading = FALSE
  /\ results = SearchItems(InitialQuery, Limit, Limit, InitialPagination.sort_field,
                           InitialPagination.sort_direction)
  /\ error = NoError
  /\ pagination = [InitialPagination EXCEPT !.skip = Limit,
                                            !.total = SearchTotal(InitialQuery)]
  /\ lastExecutedQuery = InitialQuery
  /\ inflight = << >>
  /\ searchRequestRef = 0
  /\ intervals = {}
  /\ newQueryTimer = NoTimer

InitSecondPage ==
  /\ InitDialog
  /\ server = ServerIdle
  /\ ordering = NoOrdering
  /\ naming = NoNaming
  /\ paging = NoPaging
  /\ combining = NoCombining
  /\ SecondPage
  /\ visibleColumns = [c \in { columnOrder[i] : i \in DOMAIN columnOrder } |-> TRUE]
  /\ showColumnSelector = FALSE
  /\ nextId = 1
  /\ runtimeInterval = 0
  /\ showQueryModal = FALSE
  /\ pendingQuery = NullQuery
  /\ hasExecutedQuery = FALSE

SpecSecondPage == InitSecondPage /\ [][Next]_vars

\* ------------------------------------------------------------ arrivals
\* The effect as it runs after the render that follows a continuation. The code
\* keeps no handle to its request, which takes id 0 here, so that nextId counts
\* the requests issued by the user's actions only.
paginationSearchAfterSettle(error1, pag1, inflight1) ==
  LET depsChanged == \/ pag1.skip # pagination.skip
                     \/ pag1.limit # pagination.limit
                     \/ pag1.sort_field # pagination.sort_field
                     \/ pag1.sort_direction # pagination.sort_direction
      run == depsChanged /\ lastExecutedQuery # NullQuery
      req == executeQuery(0, "paginationSearch", lastExecutedQuery, pag1)
  IN /\ pagination' = pag1
     /\ loading' = run
     /\ error' = IF run THEN NoError ELSE error1
     /\ inflight' = IF run THEN Append(inflight1, req) ELSE inflight1
     /\ UNCHANGED << lastExecutedQuery, nextId >>

\* executeSearchSettled, the effect's request uncounted.
executeSearchArrived(i, outcome) ==
  LET r == inflight[i]
      ok == outcome = "ok"
      pag1 == IF ok THEN [r.pag EXCEPT !.total = SearchTotal(r.query)] ELSE pagination
      error1 == IF ok THEN error ELSE Rejection(r, outcome)
  IN /\ r.kind = "executeSearch"
     /\ outcome \in Outcomes(r)
     /\ results' = IF ok THEN ResponseItems(r) ELSE << >>
     /\ intervals' = intervals \ { runtimeInterval }
     /\ searchRequestRef' = 0
     /\ paginationSearchAfterSettle(error1, pag1, RemoveAt(inflight, i))
     /\ UNCHANGED << query, sameRef, runtimeInterval, columnVars, exportVars, modalVars >>

\* paginationSearchSettled, the effect's request uncounted.
paginationSearchArrived(i, outcome) ==
  LET r == inflight[i]
      ok == outcome = "ok"
      pag1 == IF ok THEN [r.pag EXCEPT !.total = SearchTotal(r.query)] ELSE pagination
      error1 == IF ok THEN error
                ELSE [message |-> Rejection(r, outcome).message, status |-> 0]
  IN /\ r.kind = "paginationSearch"
     /\ outcome \in Outcomes(r)
     /\ results' = IF ok THEN ResponseItems(r) ELSE results
     /\ paginationSearchAfterSettle(error1, pag1, RemoveAt(inflight, i))
     /\ UNCHANGED << query, sameRef, columnVars, exportVars, modalVars, timerVars >>

\* The promise of the request at position i settles.
Arrival(i) ==
  \E outcome \in { "ok", "error", "timeoutError" } :
    \/ executeSearchArrived(i, outcome)
    \/ paginationSearchArrived(i, outcome)

Arrivals == \E i \in DOMAIN inflight : Arrival(i)

\* The oldest request in flight settles.
OldestArrival == inflight # << >> /\ Arrival(1)

\* The user's actions, of which nextId <= MaxRequests allows finitely many
\* that issue a request.
UserAction ==
  \/ \E t \in BuilderTrees : onQueryChange(t)
  \/ handleSubmit
  \/ handleCancelSearch
  \/ \E newPage \in PageButtons : handlePageChange(newPage)
  \/ \E field \in SortFields : handleSort(field)

NextArrivals ==
  \/ UserAction
  \/ Arrivals

\* Every request eventually completes: a continuation that can run does run,
\* and the oldest request in flight is not kept waiting for ever.
EveryRequestCompletes == WF_vars(Arrivals) /\ WF_vars(OldestArrival)

SpecArrivals == Init /\ [][NextArrivals]_vars /\ EveryRequestCompletes

\* The results view with its column selector: searches that fill the table,
\* header sorts, paging and the column controls.
NextColumns ==
  \/ \E t \in BuilderTrees : onQueryChange(t)
  \/ handleSubmitModal
  \/ handleCancelModal
  \/ \E newPage \in PageButtons : handlePageChange(newPage)
  \/ \E field \in SortFields : handleSort(field)
  \/ SettleModal
  \/ ColumnActions

SpecColumns == Init /\ [][NextColumns]_vars

\* ------------------------------------------------------------ export dialog
\* Array.prototype.includes
includes(q, x) == \E i \in DOMAIN q : q[i] = x

\* The fields of each category of the catalog.
CatalogCategory(c) ==
  CASE c = "source" -> << "agn_id", "ra", "declination" >>
    [] c = "redshift" -> << "redshift_type", "z_value", "z_error" >>
    [] c = "classification" ->
         << "spec_class", "gen_class", "xray_class", "best_class", "image_class", "sed_class" >>
    [] c = "photometry" ->
         << "band_label", "filter_name", "mag_value", "mag_error", "extinction" >>
    [] OTHER -> << >>

\* What GET /search/available-fields answers.
Catalog ==
  [categories |-> { "source", "redshift", "classification", "photometry" },
   all_fields |-> [i \in DOMAIN fields |-> fields[i].name]]

\* availableFields.categories[category] || []
CategoryFields(category) ==
  IF category \in availableFields.categories THEN CatalogCategory(category) ELSE << >>

\* The field checkboxes the dialog renders.
RenderedFields ==
  { f \in FieldNames : \E c \in availableFields.categories : includes(CategoryFields(c), f) }

\* Object.keys(visibleColumns).filter(column => visibleColumns[column])
initialSelectedFields == SelectSeq(columnOrder, LAMBDA c : visibleColumns[c])

FieldsError ==
  [message |-> "Failed to load available fields. Please try again.", status |-> 0]
ExportFailed == [message |-> "Export failed", status |-> 0]
ExportCancelled == [message |-> "Export cancelled by user", status |-> 0]
NoSearchError == [message |-> "Execute a search first before exporting results", status |-> 0]

\* The user can act in the export dialog.
DialogFree == UserCanAct /\ showExportDialog

\* The two effects of ExportDialog that run when isOpen becomes true.
dialogOpened ==
  /\ showExportDialog' = TRUE
  /\ selectedFields' = initialSelectedFields
  /\ IF ~fieldsFetched
     THEN /\ fieldsInflight < MaxFieldRequests
          /\ exportLoading' = TRUE
          /\ exportError' = NoError
          /\ fieldsInflight' = fieldsInflight + 1
     ELSE UNCHANGED << exportLoading, exportError, fieldsInflight >>
  /\ UNCHANGED << format, availableFields, fieldsFetched, exports, nextExportId,
                  exportRequestRef, downloads >>

\* openExportDialog without its condition.
openExportDialogUnconditional ==
  /\ PageFree
  /\ Len(results) > 0
  /\ dialogOpened /\ UNCHANGED error
  /\ UNCHANGED << query, sameRef, loading, results, pagination, lastExecutedQuery, inflight,
                  nextId, columnVars, modalVars, timerVars, serverVars, pureVars >>

\* The Export button of the results view.
openExportDialog ==
  /\ PageFree
  /\ Len(results) > 0
  /\ IF Len(results) > 0 /\ lastExecutedQuery # NullQuery
     THEN dialogOpened /\ UNCHANGED error
     ELSE error' = NoSearchError /\ UNCHANGED dialogVars
  /\ UNCHANGED << query, sameRef, loading, results, pagination, lastExecutedQuery, inflight,
                  nextId, columnVars, modalVars, timerVars, serverVars, pureVars >>

\* onClose={() => setShowExportDialog(false)}, from the dialog's close buttons.
onClose ==
  /\ DialogFree
  /\ ~exportLoading
  /\ showExportDialog' = FALSE
  /\ UNCHANGED << queryVars, format, exportLoading, exportError, availableFields,
                  fieldsFetched, selectedFields, fieldsInflight, exports, nextExportId,
                  exportRequestRef, downloads, serverVars, pureVars >>

\* The continuation of fetchAvailableFields.
fetchAvailableFieldsSettled(ok) ==
  /\ fieldsInflight > 0
  /\ ~MicrotaskPending
  /\ fieldsInflight' = fieldsInflight - 1
  /\ exportLoading' = FALSE
  /\ IF ok
     THEN availableFields' = Catalog /\ fieldsFetched' = TRUE /\ UNCHANGED exportError
     ELSE exportError' = FieldsError /\ UNCHANGED << availableFields, fieldsFetched >>
  /\ UNCHANGED << queryVars, showExportDialog, format, selectedFields, exports, nextExportId,
                  exportRequestRef, downloads, serverVars, pureVars >>

setFormat(id) ==
  /\ DialogFree
  /\ format' = id
  /\ UNCHANGED << queryVars, showExportDialog, exportLoading, exportError, availableFields,
                  fieldsFetched, selectedFields, fieldsInflight, exports, nextExportId,
                  exportRequestRef, downloads, serverVars, pureVars >>

\* The new selection each selection control stores; the rest of the dialog stays.
setSelectedFields(selection) ==
  /\ selectedFields' = selection
  /\ UNCHANGED << queryVars, showExportDialog, format, exportLoading, exportError,
                  availableFields, fieldsFetched, fieldsInflight, exports, nextExportId,
                  exportRequestRef, downloads, serverVars, pureVars >>

\* toggledField that only ever adds.
toggledFieldAppends(prev, field) == Append(prev, field)

\* prev.includes(field) ? prev.filter(f => f !== field) : [...prev, field]
toggledField(prev, field) ==
  IF includes(prev, field) THEN SelectSeq(prev, LAMBDA f : f # field) ELSE Append(prev, field)

toggleField(field) ==
  /\ DialogFree
  /\ ~exportLoading
  /\ field \in RenderedFields
  /\ setSelectedFields(toggledField(selectedFields, field))

RECURSIVE pushMissing(_, _, _)
pushMissing(newFields, fs, n) ==
  IF n = 0 THEN newFields
  ELSE LET done == pushMissing(newFields, fs, n - 1)
       IN IF ~includes(done, fs[n]) THEN Append(done, fs[n]) ELSE done

\* selectCategory without the includes test.
selectCategoryPushesAll(prev, fs) == prev \o fs

selectCategory(prev, fs) == pushMissing(prev, fs, Len(fs))

deselectCategory(prev, fs) == SelectSeq(prev, LAMBDA field : ~includes(fs, field))

isCategorySelected(fs) == \A i \in DOMAIN fs : includes(selectedFields, fs[i])

\* onChange of a category checkbox
onCategoryChange(category) ==
  /\ DialogFree
  /\ ~exportLoading
  /\ category \in availableFields.categories
  /\ setSelectedFields(IF isCategorySelected(CategoryFields(category))
                       THEN deselectCategory(selectedFields, CategoryFields(category))
                       ELSE selectCategory(selectedFields, CategoryFields(category)))

\* The label of the button that calls toggleAllFields.
toggleAllLabel ==
  IF Len(selectedFields) = Len(availableFields.all_fields) THEN "Deselect All" ELSE "Select All"

toggleAllFields ==
  /\ DialogFree
  /\ setSelectedFields(IF Len(selectedFields) = Len(availableFields.all_fields)
                       THEN << >> ELSE availableFields.all_fields)

\* ------------------------------------------------------------ export request
\* A Content-Disposition header is the sequence of its pieces; the empty
\* sequence is the header that is absent.
NoHeader == << >>
\* The pieces headers are made of.
HeaderPieces == { "attachment", ";", " ", "filename=", "\"", "custom_filename.csv" }
\* The headers the export endpoint answers the dialog with.
ContentDispositions ==
  { NoHeader, << "attachment", ";", " ", "filename=", "custom_filename.csv" >> }

\* contentDisposition.match(/filename=([^;]+)/): the captured group of the
\* leftmost match, or the empty sequence when nothing matches.
matchFilename(h) ==
  LET starts == { i \in DOMAIN h : h[i] = "filename=" /\ i < Len(h) /\ h[i + 1] # ";" }
  IN IF starts = {} THEN << >>
     ELSE LET i == CHOOSE k \in starts : \A l \in starts : k <= l
              stops == { k \in (i + 1)..Len(h) : h[k] = ";" }
              last == IF stops = {} THEN Len(h)
                      ELSE (CHOOSE k \in stops : \A l \in stops : k <= l) - 1
          IN SubSeq(h, i + 1, last)

\* String.prototype.trim
RECURSIVE trim(_)
trim(t) ==
  IF t = << >> THEN t
  ELSE IF Head(t) = " " THEN trim(Tail(t))
  ELSE IF t[Len(t)] = " " THEN trim(SubSeq(t, 1, Len(t) - 1))
  ELSE t

\* The filename the blob is downloaded under.
ExportFilename(contentDisposition, fmt) ==
  IF contentDisposition # NoHeader
  THEN IF matchFilename(contentDisposition) # << >>
       THEN SelectSeq(trim(matchFilename(contentDisposition)), LAMBDA ch : ch # "\"")
       ELSE << "export.csv" >>
  ELSE IF fmt = "votable" THEN << "agn_db_export.xml" >>
  ELSE << "export.csv" >>

\* exportOptions.selected_fields: the list, or null for an empty selection.
selected_fields(selection) ==
  IF Len(selection) > 0 THEN [isNull |-> FALSE, list |-> selection]
  ELSE [isNull |-> TRUE, list |-> << >>]

\* searchApi.exportResultsWithCancellation: the request in flight.
exportResultsWithCancellation(id, tree, fmt, selection, sortField, sortDirection) ==
  [id |-> id, query |-> tree, format |-> fmt, selected_fields |-> selected_fields(selection),
   sort_field |-> sortField, sort_direction |-> sortDirection, abort |-> FALSE]

\* handleExport behind an Export button that is never disabled.
handleExportNeverDisabled ==
  /\ DialogFree
  /\ ~exportLoading
  /\ nextExportId <= MaxExports
  /\ exportLoading' = TRUE
  /\ exportError' = NoError
  /\ exports' = Append(exports,
        exportResultsWithCancellation(nextExportId, lastExecutedQuery, format, selectedFields,
                                      pagination.sort_field, pagination.sort_direction))
  /\ exportRequestRef' = nextExportId
  /\ nextExportId' = nextExportId + 1
  /\ UNCHANGED << queryVars, showExportDialog, format, availableFields, fieldsFetched,
                  selectedFields, fieldsInflight, downloads, serverVars, pureVars >>

\* The Export button: rendered while not loading, disabled while
\* selectedFields.length === 0.
handleExport ==
  /\ DialogFree
  /\ ~exportLoading
  /\ Len(selectedFields) # 0
  /\ nextExportId <= MaxExports
  /\ exportLoading' = TRUE
  /\ exportError' = NoError
  /\ exports' = Append(exports,
        exportResultsWithCancellation(nextExportId, lastExecutedQuery, format, selectedFields,
                                      pagination.sort_field, pagination.sort_direction))
  /\ exportRequestRef' = nextExportId
  /\ nextExportId' = nextExportId + 1
  /\ UNCHANGED << queryVars, showExportDialog, format, availableFields, fieldsFetched,
                  selectedFields, fieldsInflight, downloads, serverVars, pureVars >>

handleCancelExport ==
  /\ DialogFree
  /\ exportLoading
  /\ exports' = [i \in DOMAIN exports |->
                   IF exports[i].id = exportRequestRef THEN [exports[i] EXCEPT !.abort = TRUE]
                   ELSE exports[i]]
  /\ exportRequestRef' = 0
  /\ exportLoading' = FALSE
  /\ exportError' = ExportCancelled
  /\ UNCHANGED << queryVars, showExportDialog, format, availableFields, fieldsFetched,
                  selectedFields, fieldsInflight, nextExportId, downloads, serverVars, pureVars >>

\* How the promise of export request r can settle now.
ExportOutcomes(r) ==
  IF r.abort THEN { "cancelled" }
  ELSE IF MicrotaskPending THEN {}
  ELSE { "ok", "failed" }

\* exportSettled with onClose() moved into the finally block.
exportSettledAlwaysCloses(i, outcome, contentDisposition) ==
  LET r == exports[i]
  IN /\ outcome \in ExportOutcomes(r)
     /\ exports' = RemoveAt(exports, i)
     /\ exportLoading' = FALSE
     /\ exportRequestRef' = 0
     /\ showExportDialog' = FALSE
     /\ IF outcome = "ok"
        THEN /\ downloads' = Append(downloads, ExportFilename(contentDisposition, r.format))
             /\ UNCHANGED exportError
        ELSE /\ exportError' = IF outcome = "cancelled" THEN ExportCancelled ELSE ExportFailed
             /\ UNCHANGED downloads
     /\ UNCHANGED << queryVars, format, availableFields, fieldsFetched, selectedFields,
                     fieldsInflight, nextExportId, serverVars, pureVars >>

\* The promise of exportResultsWithCancellation settles and handleExport
\* continues after `await promise`.
exportSettled(i, outcome, contentDisposition) ==
  LET r == exports[i]
  IN /\ outcome \in ExportOutcomes(r)
     /\ exports' = RemoveAt(exports, i)
     /\ exportLoading' = FALSE
     /\ exportRequestRef' = 0
     /\ IF outcome = "ok"
        THEN /\ downloads' = Append(downloads, ExportFilename(contentDisposition, r.format))
             /\ showExportDialog' = FALSE
             /\ UNCHANGED exportError
        ELSE /\ exportError' = IF outcome = "cancelled" THEN ExportCancelled ELSE ExportFailed
             /\ UNCHANGED << downloads, showExportDialog >>
     /\ UNCHANGED << queryVars, format, availableFields, fieldsFetched, selectedFields,
                     fieldsInflight, nextExportId, serverVars, pureVars >>

\* QuerySearch after its first search has been answered, with the columns
\* the user left visible.
ColumnChoices ==
  { [c \in FieldNames |-> TRUE],
    [c \in FieldNames |-> c # columnOrder[1]] }

InitExport ==
  /\ InitDialog
  /\ server = ServerIdle
  /\ ordering = NoOrdering
  /\ naming = NoNaming
  /\ paging = NoPaging
  /\ combining = NoCombining
  /\ query = InitialQuery
  /\ sameRef = TRUE
  /\ loading = FALSE
  /\ results = SearchItems(InitialQuery, 0, Limit, Null, "asc")
  /\ error = NoError
  /\ pagination = [InitialPagination EXCEPT !.total = SearchTotal(InitialQuery)]
  /\ lastExecutedQuery = InitialQuery
  /\ visibleColumns \in ColumnChoices
  /\ showColumnSelector = FALSE
  /\ inflight = << >>
  /\ nextId = 3
  /\ searchRequestRef = 0
  /\ runtimeInterval = 0
  /\ intervals = {}
  /\ showQueryModal = FALSE
  /\ pendingQuery = NullQuery
  /\ hasExecutedQuery = TRUE
  /\ newQueryTimer = NoTimer

\* The dialog with its export requests; of the selection controls the one
\* that reaches the empty and the full selection.
NextExport ==
  \/ openExportDialog
  \/ onClose
  \/ \E ok \in BOOLEAN : fetchAvailableFieldsSettled(ok)
  \/ \E id \in { "csv", "votable" } : setFormat(id)
  \/ toggleAllFields
  \/ handleExport
  \/ handleCancelExport
  \/ \E i \in DOMAIN exports : \E outcome \in { "ok", "failed", "cancelled" } :
       \E h \in ContentDispositions : exportSettled(i, outcome, h)

SpecExport == InitExport /\ [][NextExport]_vars

\* QuerySearch from its first render, with the Export button of its results
\* view and the dialog's close buttons.
NextOpenExport ==
  \/ handleSubmitModal
  \/ handleCancelModal
  \/ handleCancelSearch
  \/ handleClear
  \/ SettleModal
  \/ openExportDialog
  \/ onClose
  \/ \E ok \in BOOLEAN : fetchAvailableFieldsSettled(ok)

SpecOpenExport == Init /\ [][NextOpenExport]_vars

\* The categories whose checkbox the user clicks.
ClickedCategories == { "source", "redshift" }

\* The dialog with its selection controls.
NextSelection ==
  \/ openExportDialog
  \/ onClose
  \/ \E ok \in BOOLEAN : fetchAvailableFieldsSettled(ok)
  \/ \E k \in 1..MaxToggleField : toggleField(Catalog.all_fields[k])
  \/ \E category \in ClickedCategories : onCategoryChange(category)
  \/ toggleAllFields
  \/ handleCancelExport

SpecSelection == InitExport /\ [][NextSelection]_vars

\* ------------------------------------------------------------ server pipeline
\* The handling of one search or export request by the server, as the design
\* describes it: validation, store calls, serialization, cancellation.
MaxLimit == 2

RuleUnknown == [field |-> "no_such_field", operator |-> "equals", value |-> "1"]

ServerTrees == BuilderTrees \cup { InitialQuery, [combinator |-> "and", rules |-> << RuleUnknown >>] }

\* The requests the HTTP layer hands to the core; total is the number of rows
\* of the store that the query matches.
ServerRequests ==
  { [kind |-> "search", query |-> t, limit |-> l, selected_fields |-> << >>, total |-> n] :
      t \in ServerTrees, l \in { 1, MaxLimit, MaxLimit + 1 }, n \in 0..MaxRows }
  \cup
  { [kind |-> "export", query |-> t, limit |-> 0, selected_fields |-> f, total |-> n] :
      t \in ServerTrees, f \in { << "agn_id", "ra" >>, << "agn_id", "no_such_field" >> },
      n \in 0..MaxRows }

\* The validation errors of a tree.
RECURSIVE TreeErrors(_)
TreeErrors(n) ==
  IF IsGroup(n)
  THEN UNION { TreeErrors(n.rules[i]) : i \in DOMAIN n.rules }
  ELSE (IF n.field \notin FieldNames THEN { "UnknownFieldError" }
        ELSE IF \/ n.operator \in StringOperators /\ FieldIsNumber(n.field)
                \/ n.operator \in NumberOperators /\ ~FieldIsNumber(n.field)
             THEN { "OperatorTypeMismatchError" } ELSE {})
       \cup (IF n.operator \notin NoValueOperators /\ n.value = ""
             THEN { "EmptyValueError" } ELSE {})

\* The validation errors of a request.
ValidationErrors(r) ==
  TreeErrors(r.query)
    \cup (IF r.kind = "search" /\ r.limit > MaxLimit THEN { "LimitExceededError" } ELSE {})
    \cup (IF \E k \in DOMAIN r.selected_fields : r.selected_fields[k] \notin FieldNames
          THEN { "UnknownFieldError" } ELSE {})

\* The rows the pipeline has to fetch and serialize.
Rows(r) == IF r.kind = "search" THEN Min(r.total, r.limit) ELSE r.total

ServerRunning == server.phase \in { "received", "executing" }

\* serverValidate checking the tree only.
serverValidateTreeOnly ==
  /\ server.phase = "received"
  /\ ~server.cancelled
  /\ IF TreeErrors(server.request.query) # {}
     THEN \E e \in TreeErrors(server.request.query) :
            server' = [server EXCEPT !.phase = "rejected", !.error = e]
     ELSE server' = [server EXCEPT !.phase = "executing"]
  /\ UNCHANGED << queryVars, dialogVars, pureVars >>

\* Validation: an invalid request is answered with its error at once.
serverValidate ==
  /\ server.phase = "received"
  /\ ~server.cancelled
  /\ IF ValidationErrors(server.request) # {}
     THEN \E e \in ValidationErrors(server.request) :
            server' = [server EXCEPT !.phase = "rejected", !.error = e]
     ELSE server' = [server EXCEPT !.phase = "executing"]
  /\ UNCHANGED << queryVars, dialogVars, pureVars >>

\* The executor issues the next store call.
serverStoreCall ==
  /\ server.phase = "executing"
  /\ ~server.cancelled
  /\ ~server.storeInFlight
  /\ server.storeCalls = 0 \/ server.fetched < Rows(server.request)
  /\ server' = [server EXCEPT !.storeInFlight = TRUE, !.storeCalls = @ + 1]
  /\ UNCHANGED << queryVars, dialogVars, pureVars >>

\* The store call in flight completes, with rows or with a StoreError.
serverStoreReturn(ok) ==
  /\ server.storeInFlight
  /\ IF ok
     THEN server' = [server EXCEPT !.storeInFlight = FALSE,
                                   !.fetched = Min(@ + StoreBatch, Rows(server.request))]
     ELSE server' = [server EXCEPT !.storeInFlight = FALSE, !.phase = "failed",
                                   !.error = "StoreError"]
  /\ UNCHANGED << queryVars, dialogVars, pureVars >>

\* serverSerializeRow of a pipeline that never looks at the cancellation.
serverSerializeRowUnchecked ==
  /\ server.phase = "executing"
  /\ server.serialized < server.fetched
  /\ server' = [server EXCEPT !.serialized = @ + 1,
                               !.bytes = IF server.request.kind = "export" THEN @ + 1 ELSE @]
  /\ UNCHANGED << queryVars, dialogVars, pureVars >>

\* One fetched row is serialized; an export streams it to the client.
serverSerializeRow ==
  /\ server.phase = "executing"
  /\ ~server.cancelled
  /\ server.serialized < server.fetched
  /\ server' = [server EXCEPT !.serialized = @ + 1,
                               !.bytes = IF server.request.kind = "export" THEN @ + 1 ELSE @]
  /\ UNCHANGED << queryVars, dialogVars, pureVars >>

\* Every row is serialized: the response (a search) or the closing
\* structure (an export) is sent.
serverFinish ==
  /\ server.phase = "executing"
  /\ ~server.cancelled
  /\ ~server.storeInFlight
  /\ server.storeCalls > 0
  /\ server.fetched = Rows(server.request)
  /\ server.serialized = server.fetched
  /\ server' = [server EXCEPT !.phase = "done", !.bytes = @ + 1]
  /\ UNCHANGED << queryVars, dialogVars, pureVars >>

\* The client aborts the request: the HTTP layer raises the cancellation signal.
serverCancelSignal ==
  /\ ServerRunning
  /\ ~server.cancelSignal
  /\ server' = [server EXCEPT !.cancelSignal = TRUE]
  /\ UNCHANGED << queryVars, dialogVars, pureVars >>

\* The pipeline observes the signal.
serverProcessCancel ==
  /\ ServerRunning
  /\ server.cancelSignal
  /\ ~server.cancelled
  /\ server' = [server EXCEPT !.cancelled = TRUE, !.error = "CancelledError"]
  /\ UNCHANGED << queryVars, dialogVars, pureVars >>

InitServer ==
  /\ InitDialog
  /\ ordering = NoOrdering
  /\ naming = NoNaming
  /\ paging = NoPaging
  /\ combining = NoCombining
  /\ InitQuery
  /\ server \in { [ServerIdle EXCEPT !.phase = "received", !.request = r] :
                    r \in ServerRequests }

NextServer ==
  \/ serverValidate
  \/ serverStoreCall
  \/ \E ok \in BOOLEAN : serverStoreReturn(ok)
  \/ serverSerializeRow
  \/ serverFinish
  \/ serverCancelSignal
  \/ serverProcessCancel

SpecServer == InitServer /\ [][NextServer]_vars

\* ------------------------------------------------------------ getOrderedColumns
\* Column names the function is called with: preferred ones and others.
OrderNames == { "ra", "agn_id", "extinction", "updated_at", "created_at" }

RECURSIVE SeqsUpTo(_, _)
SeqsUpTo(S, n) ==
  IF n = 0 THEN { << >> }
  ELSE SeqsUpTo(S, n - 1)
         \cup { Append(q, x) : q \in { r \in SeqsUpTo(S, n - 1) : Len(r) = n - 1 }, x \in S }

InitOrder ==
  /\ InitDialog
  /\ server = ServerIdle
  /\ naming = NoNaming
  /\ paging = NoPaging
  /\ combining = NoCombining
  /\ InitQuery
  /\ ordering \in { [columns |-> c, called |-> FALSE, querySearch |-> << >>,
                      exportDialog |-> << >>] : c \in SeqsUpTo(OrderNames, MaxColumns) }

\* Both components order the same array.
callGetOrderedColumns ==
  /\ ~ordering.called
  /\ ordering' = [ordering EXCEPT !.called = TRUE,
                                  !.querySearch = getOrderedColumns(ordering.columns),
                                  !.exportDialog = getOrderedColumnsExport(ordering.columns)]
  /\ UNCHANGED << queryVars, dialogVars, serverVars, naming, paging, combining >>

\* The next render calls the function with another array.
nextColumnsArgument ==
  /\ ordering.called
  /\ \E c \in SeqsUpTo(OrderNames, MaxColumns) :
       ordering' = [columns |-> c, called |-> FALSE, querySearch |-> << >>,
                    exportDialog |-> << >>]
  /\ UNCHANGED << queryVars, dialogVars, serverVars, naming, paging, combining >>

NextOrder == callGetOrderedColumns \/ nextColumnsArgument

SpecOrder == InitOrder /\ [][NextOrder]_vars

\* ------------------------------------------------------------ pages of a search
\* The trees, sorts and page sizes the pages are walked for.
PageTrees ==
  BuilderTrees \cup { InitialQuery, [combinator |-> "or", rules |-> << RuleClass, RuleDec >>] }
PageSorts == { Null, "ra", "declination" }
PageLimits == { 1, 7, Limit }

\* total of the response to a search with this skip and limit: the count is
\* taken before skip and limit are applied.
ResponseTotal(tree, skip, limit) == SearchTotal(tree)

InitPages ==
  /\ InitDialog
  /\ server = ServerIdle
  /\ ordering = NoOrdering
  /\ naming = NoNaming
  /\ combining = NoCombining
  /\ InitQuery
  /\ paging \in { [NoPaging EXCEPT !.query = t, !.sort_field = f, !.sort_direction = d,
                                    !.limit = l] :
                    t \in PageTrees, f \in PageSorts, d \in { "asc", "desc" },
                    l \in PageLimits }

\* The next page, skip = 0, limit, 2 * limit, ..., is requested and answered.
fetchNextPage ==
  /\ ~paging.done
  /\ paging' = [paging EXCEPT
        !.rows = @ \o SearchItems(paging.query, paging.skip, paging.limit,
                                  paging.sort_field, paging.sort_direction),
        !.totals = @ \cup { ResponseTotal(paging.query, paging.skip, paging.limit) },
        !.skip = @ + paging.limit,
        !.done = paging.skip + paging.limit >= SearchTotal(paging.query)]
  /\ UNCHANGED << queryVars, dialogVars, serverVars, ordering, naming, combining >>

\* The same search is asked with another skip and limit; its total is noted.
fetchOtherPage(skip, limit) ==
  /\ ~paging.done
  /\ paging' = [paging EXCEPT !.totals = @ \cup { ResponseTotal(paging.query, skip, limit) }]
  /\ UNCHANGED << queryVars, dialogVars, serverVars, ordering, naming, combining >>

NextPages ==
  \/ fetchNextPage
  \/ \E skip \in { 0, 3 }, limit \in PageLimits : fetchOtherPage(skip, limit)

SpecPages == InitPages /\ [][NextPages]_vars

\* ------------------------------------------------------------ combining trees
RuleDecLow == [field |-> "declination", operator |-> "lessThan", value |-> "0"]

\* Trees of either root combinator with up to MaxRules rules.
CombineTrees ==
  { [combinator |-> c, rules |-> q] :
      c \in { "and", "or" }, q \in SeqsUpTo({ RuleDec, RuleClass, RuleDecLow }, MaxRules) }

InitCombine ==
  /\ InitDialog
  /\ server = ServerIdle
  /\ ordering = NoOrdering
  /\ naming = NoNaming
  /\ paging = NoPaging
  /\ InitQuery
  /\ combining \in { [NoCombining EXCEPT !.last = a, !.pending = b] :
                       a \in CombineTrees, b \in CombineTrees }

\* combinedQuery is built from the executed and the pending tree.
buildCombinedQuery ==
  /\ ~combining.called
  /\ combining' = [combining EXCEPT !.called = TRUE,
                                    !.combined = CombineQueries(combining.last,
                                                                combining.pending)]
  /\ UNCHANGED << queryVars, dialogVars, serverVars, ordering, naming, paging >>

SpecCombine == InitCombine /\ [][buildCombinedQuery]_vars

\* ------------------------------------------------------------ export filename
\* The responses of the export endpoint: every header of up to MaxHeaderLen
\* pieces, for either format.
InitFilename ==
  /\ InitDialog
  /\ server = ServerIdle
  /\ ordering = NoOrdering
  /\ InitQuery
  /\ paging = NoPaging
  /\ combining = NoCombining
  /\ naming \in { [contentDisposition |-> h, format |-> fmt, called |-> FALSE,
                    filename |-> << >>] :
                    h \in SeqsUpTo(HeaderPieces, MaxHeaderLen), fmt \in { "csv", "votable" } }

\* The response is OK: the filename is chosen and the blob downloaded under it.
chooseFilename ==
  /\ ~naming.called
  /\ naming' = [naming EXCEPT !.called = TRUE,
                              !.filename = ExportFilename(naming.contentDisposition,
                                                          naming.format)]
  /\ UNCHANGED << queryVars, dialogVars, serverVars, ordering, paging, combining >>

\* The next export is answered with another header.
nextResponse ==
  /\ naming.called
  /\ \E h \in SeqsUpTo(HeaderPieces, MaxHeaderLen), fmt \in { "csv", "votable" } :
       naming' = [contentDisposition |-> h, format |-> fmt, called |-> FALSE,
                  filename |-> << >>]
  /\ UNCHANGED << queryVars, dialogVars, serverVars, ordering, paging, combining >>

NextFilename == chooseFilename \/ nextResponse

SpecFilename == InitFilename /\ [][NextFilename]_vars

\* ============================================================ properties
\* The step settles request i: its promise's continuation ran and the request
\* is no longer in flight.
Settled(i) == \A j \in DOMAIN inflight' : inflight'[j].id # inflight[i].id

Columns == { columnOrder[i] : i \in DOMAIN columnOrder }

\* C1: while the results table is shown, a column is rendered exactly when its
\* checkbox in the column selector is checked.
C1_RenderedIffChecked ==
  Len(results) > 0 => \A c \in Columns : (c \in RenderedColumns) <=> (visibleColumns[c] = TRUE)

\* C2: a search request that was in flight when the user pressed Cancel and
\* was not aborted by it changes neither results nor pagination.total when it
\* is answered.
C2_CancelDiscardsResponses ==
  [][\A i \in DOMAIN inflight :
       (inflight[i].atCancel /\ inflight[i].abort = "none" /\ Settled(i))
         => (results' = results /\ pagination'.total = pagination.total)]_vars

\* C3: a request puts the timeout error into the error state only when its
\* timeout timer existed and nobody cancelled it.
C3_TimeoutErrorOnlyFromTimer ==
  [][\A i \in DOMAIN inflight :
       (Settled(i) /\ error' # error /\ error'.message = TimeoutError.message)
         => (inflight[i].timer /\ inflight[i].abort = "none")]_vars

\* C4: once a search the user cancelled has settled, the error state shows
\* neither a failure nor a timeout for it.
C4_NoErrorAfterCancel ==
  [][\A i \in DOMAIN inflight :
       (inflight[i].atCancel /\ inflight[i].abort = "cancel" /\ Settled(i))
         => error'.message \notin { TimeoutError.message, ServerError.message }]_vars

\* C5: every request in flight can end by its timeout: none waits for a
\* response without a timer.
C5_EveryRequestTimesOut ==
  ~MicrotaskPending => \A i \in DOMAIN inflight : "timeoutError" \in Outcomes(inflight[i])

\* Every key of node a but valueSource is a key of node b with the same value.
Preserved(a, b) ==
  \A k \in (DOMAIN a) \ { "valueSource" } : k \in DOMAIN b /\ b[k] = a[k]

\* C6: combining yields a tree with root combinator "or" whose children are
\* the children of the last executed tree followed by those of the pending
\* tree, each with its field, operator, value and nested rules; the trees held
\* by the requests in flight stay as they were.
C6_CombineIsPure ==
  [][handleCombineQueries =>
       LET n == Len(lastExecutedQuery.rules)
           m == Len(pendingQuery.rules)
       IN /\ query'.combinator = "or"
          /\ Len(query'.rules) = n + m
          /\ \A i \in 1..n : Preserved(lastExecutedQuery.rules[i], query'.rules[i])
          /\ \A i \in 1..m : Preserved(pendingQuery.rules[i], query'.rules[n + i])
          /\ \A i \in DOMAIN inflight : inflight'[i].query = inflight[i].query]_vars

\* A combined tree of two non-empty trees is in the builder.
C6_Witness ==
  /\ query.combinator = "or"
  /\ Len(query.rules) >= 3
  /\ \E i \in DOMAIN query.rules :
       "valueSource" \in DOMAIN query.rules[i] /\ IsGroup(query.rules[i])
  /\ lastExecutedQuery = query

\* The step issues a request for a submitted query.
IssuesSubmittedSearch ==
  \E j \in DOMAIN inflight' :
    inflight'[j].kind = "executeSearchModal" /\ inflight'[j].id >= nextId

C8_PaginationWellFormed ==
  /\ pagination.limit > 0
  /\ pagination.skip >= 0
  /\ pagination.skip % pagination.limit = 0
  /\ pagination.sort_field \in { Null } \cup FieldNames
  /\ pagination.sort_direction \in { "asc", "desc" }

\* C9: every tree a search request carries is a valid tree.
C9_SentTreesValid == \A i \in DOMAIN inflight : ValidNode(inflight[i].query)

\* C10: the column controls and a header sort leave query and
\* lastExecutedQuery as they were.
C10_ColumnsAndSortKeepQuery ==
  [][(\/ \E c \in Columns : toggleColumnVisibility(c)
      \/ \E visible \in BOOLEAN : toggleAllColumns(visible)
      \/ \E field \in SortFields : handleSort(field))
       => (query' = query /\ lastExecutedQuery' = lastExecutedQuery)]_vars

\* A column is hidden and the table is sorted by a header, for an executed query.
C10_Witness ==
  /\ \E c \in Columns : ~visibleColumns[c]
  /\ pagination.sort_field \in SortFields
  /\ lastExecutedQuery # NullQuery
  /\ lastExecutedQuery.rules # << >>

\* The order the fields are to be presented in.
PresentationOrder ==
  << "agn_id", "ra", "declination", "redshift_type", "z_value", "z_error",
     "spec_class", "gen_class", "xray_class", "best_class", "image_class", "sed_class",
     "band_label", "filter_name", "mag_value", "mag_error", "extinction" >>

\* a may stand before b: preferred fields in the order of the list, then the
\* other names alphabetically.
MayPrecede(a, b) ==
  LET pa == IndexOf(PresentationOrder, a)
      pb == IndexOf(PresentationOrder, b)
  IN IF pa >= 0 /\ pb >= 0 THEN pa <= pb
     ELSE IF pa >= 0 THEN TRUE
     ELSE IF pb >= 0 THEN FALSE
     ELSE IndexOf(AlphaOrder, a) <= IndexOf(AlphaOrder, b)

Occurrences(q, x) == Cardinality({ i \in DOMAIN q : q[i] = x })

\* C11: getOrderedColumns returns a permutation of its argument with the
\* preferred fields first, in the order of the preferred list, and the other
\* names after them in alphabetical order; the copy in ExportDialog returns
\* the same sequence as the copy in QuerySearch.
C11_OrderedColumns ==
  ordering.called =>
    /\ Len(ordering.querySearch) = Len(ordering.columns)
    /\ \A x \in OrderNames :
         Occurrences(ordering.querySearch, x) = Occurrences(ordering.columns, x)
    /\ \A i, j \in DOMAIN ordering.querySearch :
         i < j => MayPrecede(ordering.querySearch[i], ordering.querySearch[j])
    /\ ordering.exportDialog = ordering.querySearch

\* An array with preferred and other names, none in place, has been ordered.
C11_Witness ==
  /\ ordering.called
  /\ ordering.columns = << "updated_at", "extinction", "created_at" >>
  /\ ordering.querySearch = << "extinction", "created_at", "updated_at" >>


\* The default name of an export in format fmt.
DefaultFilename(fmt) ==
  IF fmt = "votable" THEN << "agn_db_export.xml" >> ELSE << "export.csv" >>

\* C12: a successful export is downloaded under the filename= parameter of
\* the Content-Disposition header, trimmed and without double quotes; when
\* the response supplies no filename, under export.csv for format csv and
\* agn_db_export.xml for format votable.
C12_DownloadFilename ==
  naming.called =>
    LET given == matchFilename(naming.contentDisposition)
    IN naming.filename =
         IF given # << >> THEN SelectSeq(trim(given), LAMBDA ch : ch # "\"")
         ELSE DefaultFilename(naming.format)

\* C13: when an export request fails, its promise rejects, no download is
\* initiated, the dialog records the error, returns to loading = false and is
\* not closed; when it succeeds, exactly one download is initiated and onClose
\* is called.
C13_ExportOutcome ==
  [][\A i \in DOMAIN exports : \A h \in ContentDispositions :
       /\ exportSettled(i, "failed", h) =>
            /\ downloads' = downloads
            /\ exportError' = ExportFailed
            /\ exportLoading' = FALSE
            /\ showExportDialog' = showExportDialog
       /\ exportSettled(i, "ok", h) =>
            /\ Len(downloads') = Len(downloads) + 1
            /\ SubSeq(downloads', 1, Len(downloads)) = downloads
            /\ showExportDialog' = FALSE]_vars

\* An export succeeded and closed the dialog; a later one failed and left the
\* dialog open with the error.
C13_Witness ==
  /\ Len(downloads) = 1
  /\ nextExportId = 3
  /\ exports = << >>
  /\ exportError = ExportFailed
  /\ showExportDialog
  /\ ~exportLoading

\* C14: every export request the dialog sends carries selected_fields that is
\* null or a non-empty list of field names, never an empty list; the Export
\* action is disabled in every state in which no field is selected.
C14_SelectedFieldsSent ==
  /\ \A i \in DOMAIN exports :
       \/ exports[i].selected_fields.isNull
       \/ /\ Len(exports[i].selected_fields.list) > 0
          /\ \A k \in DOMAIN exports[i].selected_fields.list :
               exports[i].selected_fields.list[k] \in FieldNames
  /\ Len(selectedFields) = 0 => ~ENABLED handleExport

\* A request with a list of fields is in flight while the dialog shows its
\* Export button with nothing selected.
C14_Witness ==
  /\ Len(exports) = 1
  /\ ~exports[1].selected_fields.isNull
  /\ Len(exports[1].selected_fields.list) > 0
  /\ showExportDialog
  /\ ~exportLoading
  /\ nextExportId <= MaxExports
  /\ selectedFields = << >>

\* C15: openExportDialog opens the export dialog only if results are non-empty
\* and a last executed query exists; otherwise the dialog stays closed and the
\* error 'Execute a search first before exporting results' is set. onClose
\* always leaves the dialog closed.
C15_OpenExportDialog ==
  [][/\ ~showExportDialog /\ showExportDialog' =>
          Len(results) > 0 /\ lastExecutedQuery # NullQuery
     /\ openExportDialog /\ ~(Len(results) > 0 /\ lastExecutedQuery # NullQuery) =>
          ~showExportDialog' /\ error' = NoSearchError
     /\ onClose => ~showExportDialog']_vars

\* The Export button was pressed over results that no executed query stands
\* for: the dialog is closed and the error is shown.
C15_Witness ==
  /\ Len(results) > 0
  /\ lastExecutedQuery = NullQuery
  /\ error = NoSearchError
  /\ ~showExportDialog

\* The fields of a selection, as a set.
Selected(selection) == { selection[k] : k \in DOMAIN selection }

\* Every available field is selected.
AllAvailableSelected ==
  \A k \in DOMAIN availableFields.all_fields :
    availableFields.all_fields[k] \in Selected(selectedFields)

\* C16: the Select All / Deselect All control empties the selection only when
\* every available field is selected, and in every other state makes the
\* selection exactly the set of all available fields; its label reads
\* 'Deselect All' exactly when every available field is selected.
C16_ToggleAll ==
  /\ [](showExportDialog => (toggleAllLabel = "Deselect All" <=> AllAvailableSelected))
  /\ [][toggleAllFields =>
          /\ selectedFields' = << >> /\ selectedFields # << >> => AllAvailableSelected
          /\ ~AllAvailableSelected =>
               Selected(selectedFields') = Selected(availableFields.all_fields)]_vars

NoDuplicates(selection) ==
  \A i, j \in DOMAIN selection : selection[i] = selection[j] => i = j

\* C17: a click on a category checkbox while not every field of the category
\* is selected adds exactly the category's missing fields; a click while every
\* field of it is selected removes exactly the category's fields; either way
\* the fields outside the category keep their selection status and the
\* selection holds no duplicate.
C17_CategoryCheckbox ==
  [][\A category \in ClickedCategories :
       onCategoryChange(category) =>
         LET inCategory == Selected(CategoryFields(category))
             before == Selected(selectedFields)
             after == Selected(selectedFields')
         IN /\ IF inCategory \subseteq before
               THEN after = before \ inCategory
               ELSE /\ after = before \cup inCategory
                    /\ Len(selectedFields') =
                         Len(selectedFields) + Cardinality(inCategory \ before)
                    /\ SubSeq(selectedFields', 1, Len(selectedFields)) = selectedFields
            /\ \A f \in FieldNames \ inCategory : f \in after <=> f \in before
            /\ NoDuplicates(selectedFields')]_vars

\* The source category was removed by its checkbox and, partly selected again,
\* completed by it.
C17_Witness ==
  /\ showExportDialog
  /\ Len(selectedFields) = Len(Catalog.all_fields)
  /\ NoDuplicates(selectedFields)
  /\ SubSeq(selectedFields, Len(selectedFields) - 2, Len(selectedFields))
       = << "agn_id", "ra", "declination" >>

\* C18: toggleField(f) flips the membership of f in the selection and leaves
\* the membership of every other field as it was; applied twice to the same
\* field it restores the selected set.
C18_ToggleField ==
  /\ [](\A f \in FieldNames :
          Selected(toggledField(toggledField(selectedFields, f), f)) = Selected(selectedFields))
  /\ [][\A f \in FieldNames :
          toggleField(f) =>
            /\ f \in Selected(selectedFields') <=> f \notin Selected(selectedFields)
            /\ \A g \in FieldNames \ { f } :
                 g \in Selected(selectedFields') <=> g \in Selected(selectedFields)]_vars

\* A field was toggled off and on again: it is selected, now as the last of
\* the selection, and every other field is where it was.
C18_Witness ==
  /\ showExportDialog
  /\ Len(selectedFields) = Len(columnOrder)
  /\ selectedFields[Len(selectedFields)] = columnOrder[1]
  /\ SubSeq(selectedFields, 1, Len(selectedFields) - 1) = Tail(columnOrder)

\* The request fails validation: unknown field, operator/type mismatch,
\* missing value, or limit above the maximum.
FailsValidation(r) ==
  \/ ~ValidNode(r.query)
  \/ r.kind = "search" /\ r.limit > MaxLimit
  \/ \E k \in DOMAIN r.selected_fields : r.selected_fields[k] \notin FieldNames

\* C19: a search or export request that fails validation performs no store
\* access: the validation error is returned before any store call is issued,
\* and no partial result or export output is produced.
C19_NoStoreAccessWhenInvalid ==
  FailsValidation(server.request) =>
    /\ server.storeCalls = 0
    /\ ~server.storeInFlight
    /\ server.fetched = 0
    /\ server.serialized = 0
    /\ server.bytes = 0
    /\ server.phase \in { "received", "rejected" }
    /\ server.phase = "rejected" =>
         server.error \in { "UnknownFieldError", "OperatorTypeMismatchError",
                            "EmptyValueError", "LimitExceededError" }

\* An export that selects an unknown field has been rejected.
C19_Witness ==
  /\ server.phase = "rejected"
  /\ server.request.kind = "export"
  /\ ValidNode(server.request.query)
  /\ server.error = "UnknownFieldError"
  /\ server.request.total > 0

\* C20: once the cancellation signal of an export in flight has been
\* processed, the pipeline serializes no further row, emits no further byte
\* and issues no further store call; a store call in flight may complete.
C20_NoWorkAfterCancel ==
  [][server.cancelled /\ server.request.kind = "export" =>
       /\ server'.serialized = server.serialized
       /\ server'.bytes = server.bytes
       /\ server'.storeCalls = server.storeCalls]_vars

\* An export was cancelled mid-stream: rows had been sent, the store call in
\* flight completed, and the rows it returned were never serialized.
C20_Witness ==
  /\ server.request.kind = "export"
  /\ server.cancelled
  /\ ~server.storeInFlight
  /\ server.serialized > 0
  /\ server.bytes = server.serialized
  /\ server.serialized < server.fetched
  /\ server.fetched = server.request.total

C24_CombinedMatchesUnion ==
  combining.called =>
    Matches(combining.combined) = Matches(combining.last) \cup Matches(combining.pending)

\* The tree was built by handleCombineQueries: only its rules carry valueSource.
IsCombinedTree(t) ==
  /\ t.combinator = "or"
  /\ t.rules # << >>
  /\ \A i \in DOMAIN t.rules : "valueSource" \in DOMAIN t.rules[i]

\* The server's answer to the last executed tree for the page and sort on display.
AnswerToLastExecuted ==
  SearchItems(lastExecutedQuery, pagination.skip, pagination.limit, pagination.sort_field,
              pagination.sort_direction)

\* C22: every search request issued by the choice 'Combine with Existing
\* Query' carries the combined 'or' tree, and once all requests have completed
\* the results on display are the server's answer to the combined tree held
\* in lastExecutedQuery.
C22_CombineSendsCombinedTree ==
  /\ [][handleCombineQueries =>
          \A j \in DOMAIN inflight' :
            inflight'[j].id >= nextId =>
              inflight'[j].query = CombineQueries(lastExecutedQuery, pendingQuery)]_vars
  /\ []((IsCombinedTree(lastExecutedQuery) /\ inflight = << >> /\ error = NoError)
          => results = AnswerToLastExecuted)

\* C23: Cancel in the 'Existing Query Results' dialog only clears pendingQuery
\* and closes the dialog: results, lastExecutedQuery, pagination,
\* hasExecutedQuery and the builder's query stay and no request is issued. In
\* every state the dialog is shown exactly when pendingQuery is not null.
C23_CancelModalOnlyCloses ==
  /\ [](showQueryModal <=> pendingQuery # NullQuery)
  /\ [][handleCancelModal =>
          /\ pendingQuery' = NullQuery
          /\ ~showQueryModal'
          /\ results' = results
          /\ lastExecutedQuery' = lastExecutedQuery
          /\ pagination' = pagination
          /\ hasExecutedQuery' = hasExecutedQuery
          /\ query' = query
          /\ inflight' = inflight
          /\ nextId' = nextId]_vars

\* The dialog is open over the results of another tree and can be cancelled.
C23_Witness ==
  /\ showQueryModal
  /\ pendingQuery # NullQuery
  /\ pendingQuery # lastExecutedQuery
  /\ lastExecutedQuery # NullQuery
  /\ inflight = << >>
  /\ ENABLED handleCancelModal

\* C25: a response to an earlier search request never overwrites the outcome
\* of a later one: whenever no search request is in flight, results and
\* pagination.total are the server's answer to lastExecutedQuery with the
\* current skip, limit, sort_field and sort_direction.
C25_LatestRequestWins ==
  (inflight = << >> /\ newQueryTimer = NoTimer /\ lastExecutedQuery # NullQuery
     /\ error = NoError)
    => /\ results = AnswerToLastExecuted
       /\ pagination.total = SearchTotal(lastExecutedQuery)

\* The page and the sort order of a pagination record.
PageAndSort(pag) == << pag.skip, pag.limit, pag.sort_field, pag.sort_direction >>

\* C26: applying a search response changes only results and pagination.total:
\* skip, limit, sort_field and sort_direction keep the values they have when
\* the response is applied, also when the user changed page or sort while the
\* request was in flight.
C26_ResponseKeepsPageAndSort ==
  [][Settle => PageAndSort(pagination') = PageAndSort(pagination)]_vars

\* No search request is in flight and the loading flag is off.
Quiescent == inflight = << >> /\ ~loading

\* C27: after finitely many user actions, and provided every request
\* eventually completes, the client comes to rest with no request in flight
\* and loading = false: response arrivals alone do not keep issuing requests.
C27_ComesToRest == []<><<UserAction>>_vars \/ <>[]Quiescent

\* A search request is in flight: sent, not aborted, its promise not settled.
SearchPending == \E i \in DOMAIN inflight : inflight[i].abort = "none"

\* C28: loading is true whenever a search request issued by executeSearch or
\* by the pagination/sort effect is in flight, so that the "Execute Query" and
\* "Clear Results" controls are not offered while a request is pending.
C28_LoadingWhilePending == SearchPending => loading

\* The promise of a search that a newer executeSearch aborted settles.
SupersededSettles ==
  \E i \in DOMAIN inflight :
    /\ inflight[i].kind = "executeSearch"
    /\ inflight[i].abort = "cancel"
    /\ inflight[i].id # searchRequestRef
    /\ ~inflight[i].atCancel
    /\ executeSearchSettled(i, "timeoutError")

\* C29: when executeSearch starts while an earlier cancellable search is in
\* flight, the settling of the aborted promise leaves the error, the results,
\* the loading flag, the runtime interval timer and the cancel handle of the
\* newer search as they are; at most one runtime interval timer runs at any
\* time, and none runs once no search is in flight.
C29_SupersededSearchIsInert ==
  /\ [](Cardinality(intervals) <= 1)
  /\ [](inflight = << >> => intervals = {})
  /\ [][SupersededSettles =>
          UNCHANGED << error, results, loading, intervals, searchRequestRef >>]_vars

\* C30: whenever no search request is in flight and pagination.total > 0, the
\* current page exists: skip < total and 1 <= getCurrentPage <= getTotalPages,
\* also after a new or changed query was executed from a page other than the
\* first.
C30_CurrentPageExists ==
  (inflight = << >> /\ newQueryTimer = NoTimer /\ pagination.total > 0)
    => /\ pagination.skip < pagination.total
       /\ 1 <= getCurrentPage
       /\ getCurrentPage <= getTotalPages

====
